---- MODULE Spec2Model ----
(***************************************************************************)
(* b2db: records of a table kept as JSON documents (plus attachments) in a *)
(* B2 bucket.  The model follows src/b2db/{model,table,db,file,            *)
(* field_types}.py.                                                        *)
(*                                                                         *)
(* Strings of the program (keys, paths, file names) are sequences of       *)
(* characters; the literals 'record-data.json' and 'files' are kept as one *)
(* atom each, since no key or target of the model contains a part of them. *)
(* Python values are tagged by their runtime class, JSON text by its       *)
(* syntax, so json.dumps / json.loads are real conversions.                *)
(***************************************************************************)
EXTENDS Integers, Sequences, FiniteSets, TLC

VARIABLES
    bucket,     \* the bucket: by file name, the versions uploaded and the hide marker
    recs,       \* the Model instances the callers hold, by caller slot
    last,       \* the most recent call and what its caller observed
    handle,     \* the ModelFileHandle a caller holds: its record, attribute and value
    iter,       \* the Table.all() generator a caller holds: the keys it has yet to fetch
    flight      \* by caller slot, the upload_bytes request of a save() not yet answered

vars == <<bucket, recs, last, handle, iter, flight>>

\* ------------------------------------------------------------------ bounds

\* attachment uploads the bucket takes in one run
MaxUploads == 2

\* the longest key handed to the path functions
MaxKeyLen == 4

\* ----------------------------------------------------------------- strings

SLASH == "/"
BACKSLASH == "\\"
RECORD_DATA == "record-data.json"
FILES == "files"

RECURSIVE Replace(_, _, _)
\* str.replace(old, new) for a one-character old
Replace(s, old, new) ==
    IF s = <<>> THEN <<>>
    ELSE (IF Head(s) = old THEN new ELSE <<Head(s)>>) \o Replace(Tail(s), old, new)

RECURSIVE LStrip(_, _)
LStrip(s, ch) ==
    IF s # <<>> /\ Head(s) = ch THEN LStrip(Tail(s), ch) ELSE s

RECURSIVE RStrip(_, _)
RStrip(s, ch) ==
    IF s # <<>> /\ s[Len(s)] = ch THEN RStrip(SubSeq(s, 1, Len(s) - 1), ch) ELSE s

\* str.strip(ch)
Strip(s, ch) == RStrip(LStrip(s, ch), ch)

\* str.startswith
StartsWith(s, p) == Len(p) <= Len(s) /\ SubSeq(s, 1, Len(p)) = p

RECURSIVE Join(_)
\* '/'.join(parts)
Join(parts) ==
    IF Len(parts) = 0 THEN <<>>
    ELSE IF Len(parts) = 1 THEN parts[1]
    ELSE parts[1] \o <<SLASH>> \o Join(Tail(parts))

\* os.path.basename
RECURSIVE basename(_)
basename(p) ==
    IF p = <<>> \/ p[Len(p)] = SLASH THEN <<>>
    ELSE basename(SubSeq(p, 1, Len(p) - 1)) \o <<p[Len(p)]>>

\* ------------------------------------------------------------- path naming

\* normalize_key without its last replace
normalize_key_no_replace(key) == Strip(Replace(key, BACKSLASH, <<SLASH>>), SLASH)

normalize_key(key) ==
    Replace(Strip(Replace(key, BACKSLASH, <<SLASH>>), SLASH), SLASH, <<"_", "_">>)

normalize_b2_path(key) == Replace(key, BACKSLASH, <<SLASH>>)

\* Table.table_prefix: the model's attribute name in the database class
table_prefix == <<"t">>

record_prefix(key) == Join(<<table_prefix, normalize_key(key)>>)

record_data_path(key) == Join(<<record_prefix(key), <<RECORD_DATA>> >>)

\* the target Table._upload_record_file hands to the gateway
record_file_path(key, target) ==
    Join(<<table_prefix, key, <<FILES>>, Strip(normalize_b2_path(target), SLASH)>>)

\* B2Database.__prefix of the database the callers use
DbPrefix == <<"p">>

\* a gateway that leaves the path as the table built it
ApplyDbPrefix_none(prefix, path) == path

\* "if self.__prefix: path = self.__prefix + '/' + path"
ApplyDbPrefix(prefix, path) ==
    IF prefix # <<>> THEN prefix \o <<SLASH>> \o path ELSE path

\* RECORD_DATA_PAT = '^(.*)/record-data\.json$': the group, or no match
RecordDataMatches(rel) ==
    Len(rel) >= 2 /\ rel[Len(rel)] = RECORD_DATA /\ rel[Len(rel) - 1] = SLASH

RecordDataGroup(rel) == SubSeq(rel, 1, Len(rel) - 2)

\* ----------------------------------------------------------- python values

\* a Python value: its class t, text s, number n, elements items
PV(t, s, n, items) == [t |-> t, s |-> s, n |-> n, items |-> items]

StrV(s) == PV("str", s, 0, <<>>)
IntV(n) == PV("int", <<>>, n, <<>>)
FloatV(n) == PV("float", <<>>, n, <<>>)
BoolV(b) == PV("bool", <<>>, IF b THEN 1 ELSE 0, <<>>)
NoneV == PV("NoneType", <<>>, 0, <<>>)
ObjV == PV("object", <<>>, 0, <<>>)
ListV(items) == PV("list", <<>>, 0, items)
TupleV(items) == PV("tuple", <<>>, 0, items)
\* a dict is its items in insertion order, each a (key, value) pair
PairV(k, v) == PV("pair", k, 0, <<v>>)
DictV(pairs) == PV("dict", <<>>, 0, pairs)

\* the raw attribute map of a record with no attribute
EmptyMap == [a \in {} |-> NoneV]

\* dict[key] = value / del dict[key]
MapSet(m, a, v) == [x \in DOMAIN m \cup {a} |-> IF x = a THEN v ELSE m[x]]
MapDel(m, a) == [x \in DOMAIN m \ {a} |-> m[x]]

\* -------------------------------------------------------------------- JSON

JV(j, s, n, items) == [j |-> j, s |-> s, n |-> n, items |-> items]

RECURSIVE Encodable(_)
\* json.dumps raises TypeError for an object of no JSON type, at any depth
Encodable(v) ==
    /\ v.t # "object"
    /\ \A i \in 1..Len(v.items) : Encodable(v.items[i])

RECURSIVE Dumps(_)
\* json.dumps of one value
Dumps(v) ==
    LET kids == [i \in 1..Len(v.items) |-> Dumps(v.items[i])] IN
    CASE v.t = "str" -> JV("string", v.s, 0, <<>>)
      [] v.t = "int" -> JV("int", <<>>, v.n, <<>>)
      [] v.t = "float" -> JV("real", <<>>, v.n, <<>>)
      [] v.t = "bool" -> JV(IF v.n = 1 THEN "true" ELSE "false", <<>>, 0, <<>>)
      [] v.t = "NoneType" -> JV("null", <<>>, 0, <<>>)
      [] v.t \in {"list", "tuple"} -> JV("array", <<>>, 0, kids)
      [] v.t = "dict" -> JV("object", <<>>, 0, kids)
      [] v.t = "pair" -> JV("member", v.s, 0, kids)

RECURSIVE Loads(_)
\* json.loads of one value
Loads(j) ==
    LET kids == [i \in 1..Len(j.items) |-> Loads(j.items[i])] IN
    CASE j.j = "string" -> StrV(j.s)
      [] j.j = "int" -> IntV(j.n)
      [] j.j = "real" -> FloatV(j.n)
      [] j.j = "true" -> BoolV(TRUE)
      [] j.j = "false" -> BoolV(FALSE)
      [] j.j = "null" -> NoneV
      [] j.j = "array" -> ListV(kids)
      [] j.j = "object" -> DictV(kids)
      [] j.j = "member" -> PV("pair", j.s, 0, kids)

\* json.dumps(save_data) of a raw attribute map
MapEncodable(m) == \A a \in DOMAIN m : Encodable(m[a])
json_dumps(m) == [a \in DOMAIN m |-> Dumps(m[a])]
\* json.loads(decoded_data) of a record document
json_loads(doc) == [a \in DOMAIN doc |-> Loads(doc[a])]

\* --------------------------------------------------------------- the bucket

\* one object version: a record document (kind "json", its JSON text in doc)
\* or an attachment (kind "file", its byte length in size)
Version(name, kind, doc, size) == [name |-> name, kind |-> kind, doc |-> doc, size |-> size]

\* an upload that keeps the members of the document stored before which the
\* new document does not have
BucketUpload_merge(b, v) ==
    LET had == v.name \in DOMAIN b /\ v.kind = "json" /\ b[v.name].chain # <<>>
        old == IF had THEN b[v.name].chain[1].doc ELSE v.doc
        doc == [a \in DOMAIN old \cup DOMAIN v.doc |->
                   IF a \in DOMAIN v.doc THEN v.doc[a] ELSE old[a]]
    IN  [n \in DOMAIN b \cup {v.name} |->
            IF n = v.name
            THEN [chain |-> <<[v EXCEPT !.doc = doc]>>, hidden |-> FALSE]
            ELSE b[n]]

\* bucket.upload_bytes / upload of a local file: a new newest version of the
\* name, no longer hidden.  Of a record document only the newest version is
\* kept: the program reads documents by name, never an older version.
BucketUpload(b, v) ==
    LET old == IF v.name \in DOMAIN b /\ v.kind = "file" THEN b[v.name].chain ELSE <<>> IN
    [n \in DOMAIN b \cup {v.name} |->
        IF n = v.name THEN [chain |-> Append(old, v), hidden |-> FALSE] ELSE b[n]]

\* bucket.hide_file on each of names.  The bytes of a hidden record document
\* are dropped: a document is read by name only, and not while hidden.
BucketHide(b, names) ==
    [n \in DOMAIN b |->
        IF n \notin names THEN b[n]
        ELSE [chain |-> SelectSeq(b[n].chain, LAMBDA v : v.kind = "file"), hidden |-> TRUE]]

\* the names ls(show_versions=False) and download_file_by_name can see
VisibleNames(b) == {n \in DOMAIN b : ~b[n].hidden}

\* the newest version stored under a name
Newest(b, name) == b[name].chain[Len(b[name].chain)]

\* the versions stored under a name so far
VersionCount(b, name) == IF name \in DOMAIN b THEN Len(b[name].chain) ELSE 0

\* the attachment versions the bucket holds
FileVersions(b) ==
    {<<n, i>> \in UNION {{n} \X (1..Len(b[n].chain)) : n \in DOMAIN b} :
        b[n].chain[i].kind = "file"}

\* bucket.ls(folder): "prefix = folder; if prefix != '' and not
\* prefix.endswith('/'): prefix += '/'"
LsPrefix(folder) ==
    IF folder # <<>> /\ folder[Len(folder)] # SLASH THEN folder \o <<SLASH>> ELSE folder

\* bucket.ls(folder, show_versions=False, recursive=True): the file names
LsRecursive(b, folder) ==
    {n \in VisibleNames(b) : StartsWith(n, LsPrefix(folder))}

\* the characters of the file names, in the order of their codes ('files'
\* sorts as 'f', 'record-data.json' as 'r')
Alphabet == <<SLASH, BACKSLASH, "_", "a", "b", FILES, "p", RECORD_DATA, "t", "u", "x">>
CharOrd(c) == CHOOSE i \in 1..Len(Alphabet) : Alphabet[i] = c

RECURSIVE NameLess(_, _)
\* the order the store lists file names in
NameLess(a, b) ==
    IF a = <<>> THEN b # <<>>
    ELSE IF b = <<>> THEN FALSE
    ELSE IF Head(a) = Head(b) THEN NameLess(Tail(a), Tail(b))
    ELSE CharOrd(Head(a)) < CharOrd(Head(b))

RECURSIVE SortNames(_)
\* the names of a listing, in the order the store gives them
SortNames(S) ==
    IF S = {} THEN <<>>
    ELSE LET first == CHOOSE n \in S : \A m \in S : ~NameLess(m, n)
         IN  <<first>> \o SortNames(S \ {first})

\* "folder_with_slash = after_prefix.split('/')[0] + '/'": the folder of a
\* name below the listed prefix, <<>> for a name directly in it
RECURSIVE FirstFolder(_)
FirstFolder(after) ==
    IF after = <<>> THEN <<>>
    ELSE IF Head(after) = SLASH THEN <<SLASH>>
    ELSE LET rest == FirstFolder(Tail(after)) IN
         IF rest = <<>> THEN <<>> ELSE <<Head(after)>> \o rest

\* bucket.ls(folder, show_versions=False), not recursive: the files directly
\* in the folder, and of each sub-folder the first file only
LsTopLevel(b, folder) ==
    LET under == LsRecursive(b, folder)
        dir(n) == FirstFolder(SubSeq(n, Len(LsPrefix(folder)) + 1, Len(n)))
    IN  {n \in under :
            dir(n) = <<>> \/ \A m \in under : dir(m) = dir(n) => ~NameLess(m, n)}

\* ------------------------------------------------------- B2Database gateway

\* nuke: the files it hides, taken from a listing that is not recursive
nuke(b) == LsTopLevel(b, <<>>)

\* list_table_keys as a generator: the keys in the order it yields them
list_table_keys_seq(b, path) ==
    LET root == ApplyDbPrefix(DbPrefix, path)
        rel(n) == SubSeq(n, Len(root) + 2, Len(n))
        names == SortNames({f \in LsRecursive(b, root) : RecordDataMatches(rel(f))})
    IN  [i \in 1..Len(names) |-> RecordDataGroup(rel(names[i]))]

\* write_record_data: the exception it ends in.  json.dumps fails on a value
\* of no JSON type; the UTF-8 step cannot fail (json.dumps escapes to ASCII);
\* store_ok: whether bucket.upload_bytes succeeds
write_record_data_error(save_data, store_ok) ==
    IF ~MapEncodable(save_data) THEN "ValueError"
    ELSE IF ~store_ok THEN "StoreError"
    ELSE "none"

\* the object write_record_data uploads
write_record_data_object(path, save_data) ==
    Version(ApplyDbPrefix(DbPrefix, path), "json", json_dumps(save_data), 0)

\* read_record_data: FileNotPresent becomes KeyError
read_record_data_error(b, path) ==
    IF ApplyDbPrefix(DbPrefix, path) \in VisibleNames(b) THEN "none" ELSE "KeyError"

read_record_data(b, path) ==
    json_loads(Newest(b, ApplyDbPrefix(DbPrefix, path)).doc)

\* delete_record_files listing without the database prefix
delete_record_files_no_prefix(b, path) == LsRecursive(b, path)

\* delete_record_files: the files it hides; none (cnt == 0) is a KeyError
delete_record_files(b, path) ==
    LsRecursive(b, ApplyDbPrefix(DbPrefix, path))

\* list_table_keys: the keys it yields
list_table_keys(b, path) ==
    LET root == ApplyDbPrefix(DbPrefix, path)
        rel(n) == SubSeq(n, Len(root) + 2, Len(n))
    IN  {RecordDataGroup(rel(n)) :
            n \in {f \in LsRecursive(b, root) : RecordDataMatches(rel(f))}}

\* list_table_keys raises when a listed name does not start with path + '/'
list_table_keys_error(b, path) ==
    LET root == ApplyDbPrefix(DbPrefix, path) IN
    IF \E n \in LsRecursive(b, root) : ~StartsWith(n, root \o <<SLASH>>)
    THEN "Exception" ELSE "none"

\* the same operations of a B2Database constructed with any prefix (the ones
\* above are those of the database with DbPrefix)

\* write_record_data: the object it uploads
B2Database_write_record_data(prefix, path, save_data) ==
    Version(ApplyDbPrefix(prefix, path), "json", json_dumps(save_data), 0)

\* read_record_data: the name it downloads; FileNotPresent becomes KeyError
B2Database_read_record_data_error(prefix, b, path) ==
    IF ApplyDbPrefix(prefix, path) \in VisibleNames(b) THEN "none" ELSE "KeyError"

B2Database_read_record_data(prefix, b, path) ==
    json_loads(Newest(b, ApplyDbPrefix(prefix, path)).doc)

\* delete_record_files: the files it lists and hides
B2Database_delete_record_files(prefix, b, path) ==
    LsRecursive(b, ApplyDbPrefix(prefix, path))

\* list_table_keys: the files it lists
B2Database_list_table_files(prefix, b, path) ==
    LsRecursive(b, ApplyDbPrefix(prefix, path))

\* list_table_keys: the keys it yields
B2Database_list_table_keys(prefix, b, path) ==
    LET root == ApplyDbPrefix(prefix, path)
        rel(n) == SubSeq(n, Len(root) + 2, Len(n))
    IN  {RecordDataGroup(rel(n)) :
            n \in {f \in B2Database_list_table_files(prefix, b, path) : RecordDataMatches(rel(f))}}

\* list_table_keys raises when a listed name does not start with path + '/'
B2Database_list_table_keys_error(prefix, b, path) ==
    LET root == ApplyDbPrefix(prefix, path) IN
    IF \E n \in B2Database_list_table_files(prefix, b, path) : ~StartsWith(n, root \o <<SLASH>>)
    THEN "Exception" ELSE "none"

\* upload_file(path, target, content_type): the object it stores
upload_file_object(target, size) ==
    Version(ApplyDbPrefix(DbPrefix, target), "file", EmptyMap, size)

\* ------------------------------------------------------------------- Model

\* the declared fields of the model class:
\*   name = CharField(); age = IntField(); photo = FileField()
\*   doc = FileField(upload_to='u/', use_version=False, accept_content_types=['text/plain'])
FieldNames == {"name", "age", "photo", "doc"}
FileFieldNames == {"photo", "doc"}
\* every field settable
is_settable_always(name) == TRUE

is_settable(name) == name \notin FileFieldNames

\* NativeField.format / NativeField.parse
NativeFormat(value) == value
NativeParse(value) == value

\* Model.__init__ setting the dirty flag
NewModel_dirty(key, saved_data) ==
    [live |-> TRUE, key |-> key, data |-> saved_data, changed |-> TRUE, plain |-> {}]

\* Model.__init__
NewModel(key, saved_data) ==
    [live |-> TRUE, key |-> key, data |-> saved_data, changed |-> FALSE, plain |-> {}]

NoModel == [live |-> FALSE, key |-> <<>>, data |-> EmptyMap, changed |-> FALSE, plain |-> {}]

\* Model.__getitem__
Model_getitem(rec, attr) == IF attr \in DOMAIN rec.data THEN rec.data[attr] ELSE NoneV

\* "value.__class__ is None": the class of a value is a class, never None
ClassIsNone(value) == FALSE

\* the classes __setitem__ lets through
SetItemClasses == {"str", "int", "float", "list", "dict"}

\* the exception of __setitem__'s raise: its message has three %s and is
\* formatted with two values, so building it raises TypeError
SetItemRaise == "TypeError"

\* Model.__setitem__: the record after it and the exception it ends in
Model_setitem(rec, attr, value) ==
    IF ~ClassIsNone(value) /\ value.t \notin SetItemClasses
    THEN [rec |-> rec, err |-> SetItemRaise]
    ELSE [rec |-> [rec EXCEPT
                     !.data = MapSet(IF ClassIsNone(value) THEN MapDel(@, attr) ELSE @,
                                     attr, value),
                     !.changed = TRUE],
          err |-> "none"]

\* Model.__setattr__
Model_setattr(rec, name, value) ==
    IF name \notin FieldNames
    THEN [rec |-> [rec EXCEPT !.plain = @ \cup {name}], err |-> "none"]
    ELSE IF ~is_settable(name)
    THEN [rec |-> rec, err |-> "AttributeError"]
    ELSE Model_setitem(rec, name, NativeFormat(value))

\* Model.__getattribute__ of a Native field
Model_getattr(rec, name) == NativeParse(Model_getitem(rec, name))

RECURSIVE ApplyInit(_, _)
\* Table.create's loop over init_values, stopping at the first exception
ApplyInit(res, init) ==
    IF init = <<>> \/ res.err # "none" THEN res
    ELSE ApplyInit(Model_setattr(res.rec, Head(init)[1], Head(init)[2]), Tail(init))

\* Table.create
Table_create(key, init) == ApplyInit([rec |-> NewModel(key, EmptyMap), err |-> "none"], init)

\* Model.save without the test of the dirty flag
Model_save_always(rec, force, store_ok) ==
    LET err == write_record_data_error(rec.data, store_ok) IN
    IF err # "none"
    THEN [rec |-> rec, err |-> err, wrote |-> FALSE]
    ELSE [rec |-> [rec EXCEPT !.changed = FALSE], err |-> "none", wrote |-> TRUE]

\* Model.save clearing the dirty flag before the write
Model_save_clear_first(rec, force, store_ok) ==
    LET err == write_record_data_error(rec.data, store_ok) IN
    IF ~(rec.changed \/ force)
    THEN [rec |-> rec, err |-> "none", wrote |-> FALSE]
    ELSE [rec |-> [rec EXCEPT !.changed = FALSE], err |-> err, wrote |-> err = "none"]

\* Model.save: the record after it, the exception it ends in, and whether
\* write_record_data stored the document
Model_save(rec, force, store_ok) ==
    LET err == write_record_data_error(rec.data, store_ok) IN
    IF ~(rec.changed \/ force)
    THEN [rec |-> rec, err |-> "none", wrote |-> FALSE]
    ELSE IF err # "none"
    THEN [rec |-> rec, err |-> err, wrote |-> FALSE]
    ELSE [rec |-> [rec EXCEPT !.changed = FALSE], err |-> "none", wrote |-> TRUE]

\* Table.get building the record without the data read
Table_get_empty(b, key) == NewModel(key, EmptyMap)

\* Table.get: "saved_data or dict()"
Table_get(b, key) ==
    LET saved_data == read_record_data(b, record_data_path(key)) IN
    NewModel(key, IF saved_data = EmptyMap THEN EmptyMap ELSE saved_data)

\* -------------------------------------------------------- attachment handle

\* FileField.__init__: "normalize_b2_path(self.__upload_to).strip('/')"
UploadTo(folder) == Strip(normalize_b2_path(folder), SLASH)

\* the options of the model's File fields (accept_any: accept_content_types
\* is None)
FileOptions(attr) ==
    IF attr = "doc"
    THEN [upload_to |-> UploadTo(<<"u", SLASH>>), set_filename |-> <<>>, use_version |-> FALSE,
          accept_any |-> FALSE, accept_content_types |-> {"text/plain"}]
    ELSE [upload_to |-> <<>>, set_filename |-> <<>>, use_version |-> TRUE,
          accept_any |-> TRUE, accept_content_types |-> {}]

\* ModelFileHandle.upload: the target name it resolves
upload_target(attr, path) ==
    LET o == FileOptions(attr)
        named == IF o.set_filename # <<>> THEN o.set_filename ELSE basename(path)
    IN  IF o.upload_to # <<>> THEN Join(<<o.upload_to, named>>) ELSE named

\* ModelFileHandle.upload without the allow-list check
upload_error_none(attr, content_type) == "none"

\* ModelFileHandle.upload: the allow-list check
upload_error(attr, content_type) ==
    LET o == FileOptions(attr) IN
    IF ~o.accept_any /\ content_type \notin o.accept_content_types
    THEN "ValueError" ELSE "none"

\* the fileId the store gives the version-th upload under a name: a string
\* no other version has
Digits == <<"1", "2", "3", "4", "5", "6", "7", "8", "9">>
FileId(fileName, version) == fileName \o <<"#", Digits[version]>>

\* b2obj.as_dict() of the uploaded version plus 'saved_name'
file_info(fileName, version, size, saved_name) ==
    DictV(<<PairV(<<"fileId">>, StrV(FileId(fileName, version))),
            PairV(<<"fileName">>, StrV(fileName)),
            PairV(<<"size">>, IntV(size)),
            PairV(<<"saved_name">>, StrV(saved_name))>>)

\* value[key] of a dict
DictGet(d, k) ==
    LET i == CHOOSE i \in 1..Len(d.items) : d.items[i].s = <<k>> IN d.items[i].items[1]

\* FileField.parse: the handle a read of a File attribute returns
FileField_parse(s, rec, attr) ==
    [live |-> TRUE, slot |-> s, attr |-> attr, value |-> Model_getitem(rec, attr)]

\* ModelFileHandle.exists answering True whatever the handle holds
Handle_exists_always(h) == TRUE

\* ModelFileHandle.exists
Handle_exists(h) == h.value # NoneV

\* ModelFileHandle.size: "if self.__value: return int(self.__value['size'])"
Handle_size(h) ==
    IF h.value # NoneV /\ h.value.items # <<>>
    THEN IntV(DictGet(h.value, "size").n) ELSE NoneV

\* what a download wrote to the local path: the bytes of one stored version
Fetched(v) == PV("bytes", v.name, v.size, <<>>)

\* download_file(file_id=...): the version with that id, hidden or not
download_by_id(b, file_id) ==
    LET hits == {<<n, i>> \in FileVersions(b) : FileId(n, i) = file_id} IN
    IF hits = {} THEN [err |-> "NotFound", val |-> NoneV]
    ELSE LET h == CHOOSE h \in hits : TRUE IN
         [err |-> "none", val |-> Fetched(b[h[1]].chain[h[2]])]

\* download_file(name=...): the newest version of the visible name
download_by_name(b, name) ==
    LET path == ApplyDbPrefix(DbPrefix, name) IN
    IF path \in VisibleNames(b) /\ b[path].chain # <<>>
    THEN [err |-> "none", val |-> Fetched(Newest(b, path))]
    ELSE [err |-> "NotFound", val |-> NoneV]

\* ModelFileHandle.download: what it fetches, or the exception it ends in
Handle_download(b, rec, h) ==
    IF h.value = NoneV THEN [err |-> "ValueError", val |-> NoneV]
    ELSE IF FileOptions(h.attr).use_version
    THEN download_by_id(b, DictGet(h.value, "fileId").s)
    ELSE download_by_name(b, record_file_path(rec.key, DictGet(h.value, "saved_name").s))

\* ------------------------------------------------------------------ inputs

KeyA == <<"a">>
KeyAB == <<"a", SLASH, "b">>
KeyBackAB == <<"a", BACKSLASH, "b">>

Sue == StrV(<<"S", "u", "e">>)

\* values the callers assign: one of each JSON-safe class, the classes
\* __setitem__ must refuse, and lists json.dumps does and does not take
RawValues ==
    {Sue, IntV(1), FloatV(1), BoolV(TRUE), NoneV, ObjV,
     ListV(<<ObjV>>), ListV(<<BoolV(FALSE), NoneV>>), DictV(<<>>)}

\* keyword arguments of Table.create, in order
CreateInits ==
    {<<>>, <<<<"name", Sue>>>>, <<<<"name", BoolV(TRUE)>>>>, <<<<"photo", Sue>>>>,
     <<<<"name", ListV(<<BoolV(FALSE), NoneV>>)>>>>,
     <<<<"nick", Sue>>, <<"name", IntV(1)>>>>,
     <<<<"name", Sue>>, <<"photo", Sue>>>>}

\* attribute assignments rec.<name> = value
AttrSets == {<<"name", Sue>>, <<"photo", Sue>>, <<"nick", Sue>>}

\* local files a caller uploads: path, byte length, sniffed content type
FileX == [path |-> <<"x">>, size |-> 4, ctype |-> "text/plain"]
FileRD == [path |-> <<"d", SLASH, RECORD_DATA>>, size |-> 7, ctype |-> "application/json"]

\* a second local file with the base name of FileX and other bytes
FileX2 == [path |-> <<"e", SLASH, "x">>, size |-> 5, ctype |-> "text/plain"]

Slots == {1, 2}

\* ------------------------------------------------------------------- state

\* a call: its arguments, the exception it ended in ("none": it returned),
\* whether it stored an object, the keys it yielded; prev names the call
\* before it when that one had the same key (prevslot: its slot, prevok:
\* whether it returned)
Call(op, slot, key, attr, val, force, err, wrote, keys, prev, prevslot, prevok) ==
    [op |-> op, slot |-> slot, key |-> key, attr |-> attr, val |-> val,
     force |-> force, err |-> err, wrote |-> wrote, keys |-> keys,
     prev |-> prev, prevslot |-> prevslot, prevok |-> prevok]

NoCall == Call("none", 0, <<>>, "", NoneV, FALSE, "none", FALSE, {}, "other", 0, FALSE)

\* no handle read yet / no all() generator made yet / no request in flight
NoHandle == [live |-> FALSE, slot |-> 0, attr |-> "", value |-> NoneV]
NoIter == [live |-> FALSE, slot |-> 0, pending |-> <<>>, at |-> [n \in {} |-> 0]]
NoRequest == [sent |-> FALSE, doc |-> EmptyMap]

Init ==
    /\ bucket = [n \in {} |-> 0]
    /\ recs = [s \in Slots |-> NoModel]
    /\ last = NoCall
    /\ handle = NoHandle
    /\ iter = NoIter
    /\ flight = [s \in Slots |-> NoRequest]

\* a caller that rebinds its record variable lets go of the handles read from
\* the record it held
DropHandle(s) == IF handle.slot = s THEN NoHandle ELSE handle

\* the keyword arguments of a Table.create call, as the call shows them
InitArgs(init) == DictV([i \in 1..Len(init) |-> PairV(<<init[i][1]>>, init[i][2])])

\* the caller sees a call's outcome
Observe(op, slot, key, attr, val, force, err, wrote, keys) ==
    LET linked == last.key = key /\ last.op # "none" IN
    last' = Call(op, slot, key, attr, val, force, err, wrote, keys,
                 IF linked THEN last.op ELSE "other",
                 IF linked THEN last.slot ELSE 0,
                 linked /\ last.err = "none")

\* Table.create(key, **init)
Create(s, key, init) ==
    LET res == Table_create(key, init) IN
    /\ recs' = IF res.err = "none" THEN [recs EXCEPT ![s] = res.rec] ELSE recs
    /\ Observe("create", s, key, "", InitArgs(init), FALSE, res.err, FALSE, {})
    /\ handle' = DropHandle(s)
    /\ UNCHANGED <<bucket, iter, flight>>

\* rec[attr] = value
SetItem(s, attr, value) ==
    LET res == Model_setitem(recs[s], attr, value) IN
    /\ recs[s].live
    /\ recs' = [recs EXCEPT ![s] = res.rec]
    /\ Observe("setitem", s, recs[s].key, attr, value, FALSE, res.err, FALSE, {})
    /\ UNCHANGED <<bucket, handle, iter, flight>>

\* rec.<name> = value
SetAttr(s, name, value) ==
    LET res == Model_setattr(recs[s], name, value) IN
    /\ recs[s].live
    /\ recs' = [recs EXCEPT ![s] = res.rec]
    /\ Observe("setattr", s, recs[s].key, name, value, FALSE, res.err, FALSE, {})
    /\ UNCHANGED <<bucket, handle, iter, flight>>

\* rec.save(force); store_ok: whether bucket.upload_bytes succeeds
Save(s, force, store_ok) ==
    LET rec == recs[s]
        res == Model_save(rec, force, store_ok)
        obj == write_record_data_object(record_data_path(rec.key), rec.data)
    IN
    /\ rec.live
    /\ recs' = [recs EXCEPT ![s] = res.rec]
    /\ bucket' = IF res.wrote THEN BucketUpload(bucket, obj) ELSE bucket
    /\ Observe("save", s, rec.key, "", NoneV, force, res.err, res.wrote, {})
    /\ UNCHANGED <<handle, iter, flight>>

\* rec.save(force) up to its upload_bytes request: the document is encoded
\* from the record as it is now; a clean record, or one json.dumps refuses,
\* ends the call here
SaveSend(s, force) ==
    LET rec == recs[s]
        err == write_record_data_error(rec.data, TRUE)
    IN
    /\ rec.live
    /\ ~flight[s].sent
    /\ IF ~(rec.changed \/ force) \/ err # "none"
       THEN /\ Observe("save", s, rec.key, "", NoneV, force, err, FALSE, {})
            /\ UNCHANGED flight
       ELSE /\ Observe("save_send", s, rec.key, "", NoneV, force, "none", FALSE, {})
            /\ flight' = [flight EXCEPT ![s] = [sent |-> TRUE, doc |-> json_dumps(rec.data)]]
    /\ UNCHANGED <<bucket, recs, handle, iter>>

\* the store answers the upload_bytes request of slot s and save() returns:
\* the document replaces the stored one and the record is clean, or (not
\* store_ok) the request failed
SaveApply(s, store_ok) ==
    LET rec == recs[s]
        obj == Version(ApplyDbPrefix(DbPrefix, record_data_path(rec.key)), "json", flight[s].doc, 0)
    IN
    /\ flight[s].sent
    /\ flight' = [flight EXCEPT ![s] = NoRequest]
    /\ IF store_ok
       THEN /\ bucket' = BucketUpload(bucket, obj)
            /\ recs' = [recs EXCEPT ![s].changed = FALSE]
            /\ Observe("save", s, rec.key, "", NoneV, FALSE, "none", TRUE, {})
       ELSE /\ Observe("save", s, rec.key, "", NoneV, FALSE, "StoreError", FALSE, {})
            /\ UNCHANGED <<bucket, recs>>
    /\ UNCHANGED <<handle, iter>>

\* Table.get(key)
Get(s, key) ==
    LET err == read_record_data_error(bucket, record_data_path(key)) IN
    /\ recs' = IF err = "none" THEN [recs EXCEPT ![s] = Table_get(bucket, key)] ELSE recs
    /\ Observe("get", s, key, "", NoneV, FALSE, err, FALSE, {})
    /\ handle' = DropHandle(s)
    /\ UNCHANGED <<bucket, iter, flight>>

\* Table.delete(key)
Delete(key) ==
    LET files == delete_record_files(bucket, record_prefix(key)) IN
    /\ bucket' = BucketHide(bucket, files)
    /\ Observe("delete", 0, key, "", NoneV, FALSE,
                    IF files = {} THEN "KeyError" ELSE "none", FALSE, {})
    /\ UNCHANGED <<recs, handle, iter, flight>>

\* Table.list_keys(), run to its end
ListKeys ==
    /\ Observe("list_keys", 0, <<>>, "", NoneV, FALSE,
                    list_table_keys_error(bucket, table_prefix), FALSE,
                    list_table_keys(bucket, table_prefix))
    /\ UNCHANGED <<bucket, recs, handle, iter, flight>>

\* rec.<attr>.upload(file.path) through the handle of a File field
Upload(s, attr, file) ==
    LET rec == recs[s]
        target_path == upload_target(attr, file.path)
        err == upload_error(attr, file.ctype)
        obj == upload_file_object(record_file_path(rec.key, target_path), file.size)
        info == file_info(obj.name, VersionCount(bucket, obj.name) + 1, file.size, target_path)
        res == Model_setitem(rec, attr, info)
    IN
    /\ rec.live
    /\ UNCHANGED <<handle, iter, flight>>
    /\ IF err # "none"
       THEN /\ Observe("upload", s, rec.key, attr, NoneV, FALSE, err, FALSE, {})
            /\ UNCHANGED <<bucket, recs>>
       ELSE /\ Cardinality(FileVersions(bucket)) < MaxUploads
            /\ bucket' = BucketUpload(bucket, obj)
            /\ recs' = [recs EXCEPT ![s] = res.rec]
            /\ Observe("upload", s, rec.key, attr, NoneV, FALSE, res.err, TRUE, {})

\* Table._record_prefix(key) and Table._record_data_path(key)
RecordPath(key) ==
    /\ Observe("record_path", 0, key, "",
                    ListV(<<StrV(record_prefix(key)), StrV(record_data_path(key))>>),
                    FALSE, "none", FALSE, {})
    /\ UNCHANGED <<bucket, recs, handle, iter, flight>>

\* db.nuke()
Nuke ==
    /\ bucket' = BucketHide(bucket, nuke(bucket))
    /\ Observe("nuke", 0, <<>>, "", NoneV, FALSE, "none", FALSE, {})
    /\ UNCHANGED <<recs, handle, iter, flight>>

\* the first next() of Table.all(), up to the answer to the listing request
\* of list_keys(); at: the bucket as that listing saw it
AllList(s) ==
    LET err == list_table_keys_error(bucket, table_prefix)
        keys == list_table_keys_seq(bucket, table_prefix)
    IN
    /\ ~iter.live
    /\ iter' = IF err = "none" /\ keys # <<>>
               THEN [live |-> TRUE, slot |-> s, pending |-> keys, at |-> bucket]
               ELSE NoIter
    /\ Observe("all_list", s, <<>>, "", NoneV, FALSE, err, FALSE,
                    {keys[i] : i \in 1..Len(keys)})
    /\ UNCHANGED <<bucket, recs, handle, flight>>

\* Table.all(): self.get(key) of the next key listed; KeyError ends the
\* generator, and so does the last key
AllNext ==
    LET s == iter.slot
        key == Head(iter.pending)
        err == read_record_data_error(bucket, record_data_path(key))
    IN
    /\ iter.live
    /\ recs' = IF err = "none" THEN [recs EXCEPT ![s] = Table_get(bucket, key)] ELSE recs
    /\ iter' = IF err = "none" /\ Len(iter.pending) > 1
               THEN [iter EXCEPT !.pending = Tail(@)] ELSE NoIter
    /\ handle' = DropHandle(s)
    /\ Observe("all_next", s, key, "", NoneV, FALSE, err, FALSE, {})
    /\ UNCHANGED <<bucket, flight>>

\* handle = rec.<attr>: the read of a File attribute
ReadFile(s, attr) ==
    /\ recs[s].live
    /\ handle' = FileField_parse(s, recs[s], attr)
    /\ Observe("read", s, recs[s].key, attr, Model_getitem(recs[s], attr), FALSE, "none", FALSE, {})
    /\ UNCHANGED <<bucket, recs, iter, flight>>

\* handle.upload(file.path) on the handle the caller holds
HandleUpload(file) ==
    LET s == handle.slot
        rec == recs[s]
        attr == handle.attr
        target_path == upload_target(attr, file.path)
        err == upload_error(attr, file.ctype)
        obj == upload_file_object(record_file_path(rec.key, target_path), file.size)
        info == file_info(obj.name, VersionCount(bucket, obj.name) + 1, file.size, target_path)
        res == Model_setitem(rec, attr, info)
        arg == PV("file", file.path, file.size, <<StrV(<<file.ctype>>)>>)
    IN
    /\ handle.live
    /\ UNCHANGED <<handle, iter, flight>>
    /\ IF err # "none"
       THEN /\ Observe("handle_upload", s, rec.key, attr, arg, FALSE, err, FALSE, {})
            /\ UNCHANGED <<bucket, recs>>
       ELSE /\ Cardinality(FileVersions(bucket)) < MaxUploads
            /\ bucket' = BucketUpload(bucket, obj)
            /\ recs' = [recs EXCEPT ![s] = res.rec]
            /\ Observe("handle_upload", s, rec.key, attr, arg, FALSE, res.err, TRUE, {})

\* handle.download(path) on the handle the caller holds
HandleDownload ==
    LET s == handle.slot
        res == Handle_download(bucket, recs[s], handle)
    IN
    /\ handle.live
    /\ Observe("download", s, recs[s].key, handle.attr, res.val, FALSE, res.err, FALSE, {})
    /\ UNCHANGED <<bucket, recs, handle, iter, flight>>

\* Table.write_record_data(key, save_data) in the Database constructed with
\* prefix.  Of a call on a Database, last.val holds the prefix and last.keys
\* the names of the objects the gateway wrote, read, listed or hid
WriteRecordData(prefix, key, save_data) ==
    LET err == write_record_data_error(save_data, TRUE)
        obj == B2Database_write_record_data(prefix, record_data_path(key), save_data)
    IN
    /\ bucket' = IF err = "none" THEN BucketUpload(bucket, obj) ELSE bucket
    /\ Observe("write_record_data", 0, key, "", StrV(prefix), FALSE, err, err = "none",
                    IF err = "none" THEN {obj.name} ELSE {})
    /\ UNCHANGED <<recs, handle, iter, flight>>

\* Table.read_record_data(key) in the Database constructed with prefix
ReadRecordData(prefix, key) ==
    /\ Observe("read_record_data", 0, key, "", StrV(prefix), FALSE,
                    B2Database_read_record_data_error(prefix, bucket, record_data_path(key)),
                    FALSE, {ApplyDbPrefix(prefix, record_data_path(key))})
    /\ UNCHANGED <<bucket, recs, handle, iter, flight>>

\* Table.delete(key) in the Database constructed with prefix
DeleteRecordFiles(prefix, key) ==
    LET files == B2Database_delete_record_files(prefix, bucket, record_prefix(key)) IN
    /\ bucket' = BucketHide(bucket, files)
    /\ Observe("delete_record_files", 0, key, "", StrV(prefix), FALSE,
                    IF files = {} THEN "KeyError" ELSE "none", FALSE, files)
    /\ UNCHANGED <<recs, handle, iter, flight>>

\* Table.list_keys(), run to its end, in the Database constructed with prefix
ListTableKeys(prefix) ==
    /\ Observe("list_table_keys", 0, <<>>, "", StrV(prefix), FALSE,
                    B2Database_list_table_keys_error(prefix, bucket, table_prefix), FALSE,
                    B2Database_list_table_files(prefix, bucket, table_prefix))
    /\ UNCHANGED <<bucket, recs, handle, iter, flight>>

\* ---------------------------------------------------------- specifications

\* the record and its values: one caller, every kind of value
RecordKeys == {KeyA, KeyAB}

NextRecord ==
    \/ \E key \in RecordKeys, init \in CreateInits : Create(1, key, init)
    \/ \E value \in RawValues : SetItem(1, "name", value)
    \/ \E a \in AttrSets : SetAttr(1, a[1], a[2])
    \/ \E force \in BOOLEAN, store_ok \in BOOLEAN : Save(1, force, store_ok)
    \/ \E key \in RecordKeys : Get(1, key)

SpecRecord == Init /\ [][NextRecord]_vars

\* the table in the bucket: records with attachments, deleted and listed
StoreKeys == {KeyA, KeyAB, KeyBackAB}
StoreInits == {<<<<"name", Sue>>>>}
StoreFiles == {FileX, FileRD}

Next ==
    \/ \E key \in StoreKeys, init \in StoreInits : Create(1, key, init)
    \/ Save(1, FALSE, TRUE)
    \/ \E key \in StoreKeys : Get(1, key)
    \/ \E key \in StoreKeys : Delete(key)
    \/ ListKeys
    \/ \E file \in StoreFiles : Upload(1, "photo", file)

Spec == Init /\ [][Next]_vars

\* attachments through the handles of the File fields.  Both keys name the
\* record 'a__b'; the callers hand the JSON file to the field with the
\* allow-list only
FileKeys == {KeyAB, KeyBackAB}
HandleFiles == {FileX, FileX2, FileRD}

NextFile ==
    \/ \E key \in FileKeys : Create(1, key, <<>>)
    \/ Save(1, FALSE, TRUE)
    \/ \E key \in FileKeys : Get(1, key)
    \/ \E attr \in FileFieldNames : ReadFile(1, attr)
    \/ \E file \in HandleFiles :
          (file.ctype = "text/plain" \/ handle.attr = "doc") /\ HandleUpload(file)
    \/ HandleDownload
    \/ Delete(KeyAB)

SpecFile == Init /\ [][NextFile]_vars

\* the table scanned by one caller (slot 2) while another (slot 1) saves and
\* deletes; attachments are uploaded and the database is nuked between scans
ScanKeys == {KeyA, KeyAB}

NextScan ==
    \/ \E key \in ScanKeys, init \in StoreInits : Create(1, key, init)
    \/ Save(1, FALSE, TRUE)
    \/ \E key \in ScanKeys : Delete(key)
    \/ ~iter.live /\ Upload(1, "photo", FileRD)
    \/ ~iter.live /\ Nuke
    \/ AllList(2)
    \/ AllNext

SpecScan == Init /\ [][NextScan]_vars

\* the path functions over every key of separators, 'a' and '_'
KeyChars == {"a", "_", SLASH, BACKSLASH}
PathKeys == UNION {[1..n -> KeyChars] : n \in 0..MaxKeyLen}

NextPath == \E key \in PathKeys : RecordPath(key)

SpecPath == Init /\ [][NextPath]_vars

\* two record instances of one key, saved by two callers at once; a caller
\* whose save() has not returned does nothing else
RaceInits == {<<<<"name", Sue>>>>, <<<<"age", IntV(1)>>>>}
RaceSets == {<<"age", IntV(2)>>, <<"name", StrV(<<"B">>)>>}

NextRace ==
    \/ \E s \in Slots, init \in RaceInits : ~flight[s].sent /\ Create(s, KeyA, init)
    \/ \E s \in Slots, a \in RaceSets : ~flight[s].sent /\ SetAttr(s, a[1], a[2])
    \/ \E s \in Slots, force \in BOOLEAN : SaveSend(s, force)
    \/ \E s \in Slots, store_ok \in BOOLEAN : SaveApply(s, store_ok)
    \/ \E s \in Slots : ~flight[s].sent /\ Get(s, KeyA)

SpecRace == Init /\ [][NextRace]_vars

\* records of plain keys, of a key with a separator and of the empty key in
\* one table, with attachments, deleted one at a time
KeyEmpty == <<>>
ConfineKeys == {KeyEmpty, KeyA, KeyAB}

NextConfine ==
    \/ \E key \in ConfineKeys, init \in StoreInits : Create(1, key, init)
    \/ Save(1, FALSE, TRUE)
    \/ \E key \in ConfineKeys : Get(1, key)
    \/ \E key \in ConfineKeys : Delete(key)
    \/ Upload(1, "photo", FileX)

SpecConfine == Init /\ [][NextConfine]_vars

\* Databases of several prefixes (none, two unrelated ones, one below
\* another) on one bucket, each with the table 't'; records are saved under
\* the key 'a', read and deleted under 'a' and 't'
KeyT == <<"t">>
DbPrefixes == {<<>>, <<"p">>, <<"q">>, <<"p", SLASH, "t">>}
PrefixKeys == {KeyA, KeyT}
PrefixDocs == {MapSet(EmptyMap, "name", Sue), MapSet(EmptyMap, "age", IntV(1))}

NextPrefix ==
    \/ \E prefix \in DbPrefixes, save_data \in PrefixDocs :
          WriteRecordData(prefix, KeyA, save_data)
    \/ \E prefix \in DbPrefixes, key \in PrefixKeys : ReadRecordData(prefix, key)
    \/ \E prefix \in DbPrefixes, key \in PrefixKeys : DeleteRecordFiles(prefix, key)
    \/ \E prefix \in DbPrefixes : ListTableKeys(prefix)

SpecPrefix == Init /\ [][NextPrefix]_vars

\* ------------------------------------------------------------------ claims

\* a step that is a call of op: every call leaves its name in last
Called(op) == last'.op = op

\* the visible objects under the record prefix of key
UnderPrefix(b, key) ==
    {n \in VisibleNames(b) :
        StartsWith(n, ApplyDbPrefix(DbPrefix, record_prefix(key)) \o <<SLASH>>)}

\* the visible attachments uploaded for the record of key
AttachmentsOf(b, key) ==
    {n \in VisibleNames(b) :
        StartsWith(n, ApplyDbPrefix(DbPrefix, Join(<<table_prefix, key, <<FILES>> >>)) \o <<SLASH>>)}

DocVisible(b, key) == ApplyDbPrefix(DbPrefix, record_data_path(key)) \in VisibleNames(b)

\* a raw map of JSON types only: no tuple, no object, at any depth
RECURSIVE JsonValue(_)
JsonValue(v) ==
    /\ v.t \in {"str", "int", "float", "bool", "NoneType", "list", "dict", "pair"}
    /\ \A i \in 1..Len(v.items) : JsonValue(v.items[i])

JsonMap(m) == \A a \in DOMAIN m : JsonValue(m[a])

\* C1: a record made by Table.create and saved is read back by the next
\* Table.get of its key with the same raw map, and its Native attribute reads
\* as assigned.
C1_RoundTrip ==
    [][(/\ last.op = "save" /\ last.err = "none"
        /\ last.prev = "create" /\ last.prevok /\ last.prevslot = last.slot
        /\ JsonMap(recs[last.slot].data)
        /\ last'.op = "get" /\ last'.key = last.key)
       => (/\ last'.err = "none"
           /\ recs'[last'.slot].data = recs[last.slot].data
           /\ Model_getattr(recs'[last'.slot], "name") = Model_getattr(recs[last.slot], "name"))]_vars

\* C2: of two consecutive save() calls on a dirty record the first stores the
\* document and clears the dirty flag, the second stores nothing; a save with
\* force stores the document whenever it returns.
C2_SaveIdempotent ==
    [][Called("save") =>
        LET s == last'.slot IN
        /\ (recs[s].changed /\ last'.err = "none")
              => (last'.wrote /\ ~recs'[s].changed)
        /\ (last.op = "save" /\ last.slot = s /\ last.err = "none" /\ ~last'.force)
              => (~last'.wrote /\ last'.err = "none" /\ bucket' = bucket /\ recs' = recs)
        /\ (last'.force /\ last'.err = "none")
              => (/\ last'.wrote
                  /\ DocVisible(bucket', last'.key)
                  /\ Newest(bucket', ApplyDbPrefix(DbPrefix, record_data_path(last'.key))).doc
                        = json_dumps(recs[s].data))
        /\ last'.wrote => bucket' # bucket \/ DocVisible(bucket, last'.key)]_vars

\* the second of two consecutive saves stored nothing
C2_Witness ==
    /\ last.op = "save" /\ last.prev = "save" /\ last.prevok /\ last.prevslot = last.slot
    /\ ~last.force /\ ~last.wrote /\ last.err = "none"
    /\ DocVisible(bucket, last.key)
    /\ recs[last.slot].data # EmptyMap

\* C3: after a Table.delete(key) that returned, Table.get(key) and a second
\* Table.delete(key) raise KeyError; a delete returns exactly when an object
\* was visible under the prefix, leaves none there, and changes nothing
\* when it raises.
C3_DeleteEmptiesPrefix ==
    [][/\ (last.op = "delete" /\ last.err = "none" /\ last'.key = last.key
           /\ (Called("get") \/ Called("delete")))
          => last'.err = "KeyError"
       /\ Called("delete")
          => (/\ last'.err = (IF UnderPrefix(bucket, last'.key) = {} THEN "KeyError" ELSE "none")
              /\ UnderPrefix(bucket', last'.key) = {}
              /\ last'.err = "KeyError" => bucket' = bucket)]_vars

\* Table.get raised KeyError right after the delete of a saved record
C3_Witness ==
    /\ last.op = "get" /\ last.err = "KeyError"
    /\ last.prev = "delete" /\ last.prevok
    /\ ApplyDbPrefix(DbPrefix, record_data_path(last.key)) \in DOMAIN bucket

\* C4: after a Table.delete(key) that returned, neither the record's document
\* nor any attachment uploaded for the record of that key is visible.
C4_DeleteRemovesAttachments ==
    (last.op = "delete" /\ last.err = "none")
        => (~DocVisible(bucket, last.key) /\ AttachmentsOf(bucket, last.key) = {})

\* C5: Table.list_keys() yields exactly the normalized keys of the records
\* whose document is visible.
C5_ListKeysExact ==
    last.op = "list_keys"
        => (/\ last.err = "none"
            /\ last.keys = {normalize_key(k) : k \in {x \in StoreKeys : DocVisible(bucket, x)}})

\* C6: a record returned by Table.create is dirty: the save() without force
\* that follows stores its document.
C6_CreateDirty ==
    (/\ last.op = "save" /\ ~last.force /\ last.err = "none"
     /\ last.prev = "create" /\ last.prevok /\ last.prevslot = last.slot)
        => (last.wrote /\ DocVisible(bucket, last.key))

\* a save() that raised changes neither the record nor the bucket, and the
\* dirty flag of a record falls only in a save() that stored the document
SaveFailureKeeps ==
    /\ (Called("save") /\ last'.err # "none") => (recs' = recs /\ bucket' = bucket)
    /\ \A s \in DOMAIN recs :
         (recs[s].changed /\ ~recs'[s].changed /\ ~Called("create") /\ ~Called("get"))
            => (Called("save") /\ last'.slot = s /\ last'.wrote)

\* the save() after a save() that raised calls write_record_data again
Retried(dirty_only) ==
    (/\ last.op = "save" /\ last.err # "none"
     /\ Called("save") /\ last'.slot = last.slot /\ ~last'.force
     /\ dirty_only => recs[last.slot].changed)
        => (last'.wrote \/ last'.err # "none")

\* C7 as stated: after any save() that raised, a later save() without force
\* issues the write again.
C7_FailedWriteRetryable == [][SaveFailureKeeps /\ Retried(FALSE)]_vars

\* C7 as amended: the retry writes when the record was dirty.
C7_FailedWriteRetryableDirty == [][SaveFailureKeeps /\ Retried(TRUE)]_vars

\* a save() without force stored the document after a save() that raised
C7_Witness ==
    /\ last.op = "save" /\ ~last.force /\ last.wrote
    /\ last.prev = "save" /\ ~last.prevok /\ last.prevslot = last.slot

\* C8: a raw set of a custom object raises ValueError and changes neither
\* the raw map nor the dirty flag.
C8_RejectUnsupported ==
    [][(Called("setitem") /\ last'.val.t = "object")
        => (last'.err = "ValueError" /\ recs' = recs)]_vars

\* C9: a raw set of a str, int, float, bool, list or dict returns, stores the
\* value under the attribute and marks the record dirty.
C9_AcceptJsonSafe ==
    (last.op = "setitem" /\ last.val.t \in {"str", "int", "float", "bool", "list", "dict"})
        => (/\ last.err = "none"
            /\ last.attr \in DOMAIN recs[last.slot].data
            /\ recs[last.slot].data[last.attr] = last.val
            /\ recs[last.slot].changed)

\* C10: a raw set of None returns and removes the attribute: a raw get gives
\* None and the document of the next save has no such key.
C10_NoneRemoves ==
    (last.op = "setitem" /\ last.val = NoneV)
        => (/\ last.err = "none"
            /\ last.attr \notin DOMAIN recs[last.slot].data
            /\ Model_getitem(recs[last.slot], last.attr) = NoneV
            /\ last.attr \notin DOMAIN json_dumps(recs[last.slot].data))

\* C11: after handle.upload(path) returned, the handle reports exists() and
\* the byte length of the file as its size, and the raw attribute of the
\* record holds the metadata of the stored object plus the target name.
C11_UploadThenExists ==
    (last.op = "handle_upload" /\ last.err = "none")
        => LET target == upload_target(last.attr, last.val.s)
               name == ApplyDbPrefix(DbPrefix, record_file_path(last.key, target))
           IN  /\ Handle_exists(handle)
               /\ Handle_size(handle) = IntV(last.val.n)
               /\ Model_getitem(recs[last.slot], last.attr)
                     = file_info(name, VersionCount(bucket, name), last.val.n, target)

\* C12: while the raw attribute of a File field is absent from the record,
\* the handle read from it reports exists() False and size None, and its
\* download raises ValueError, fetches nothing and changes neither the
\* record nor the bucket.
C12_NeverUploaded ==
    [][/\ (handle'.live /\ handle'.attr \notin DOMAIN recs'[handle'.slot].data)
            => (~Handle_exists(handle') /\ Handle_size(handle') = NoneV)
       /\ (Called("download") /\ last'.attr \notin DOMAIN recs[last'.slot].data)
            => (/\ last'.err = "ValueError" /\ last'.val = NoneV
                /\ bucket' = bucket /\ recs' = recs)]_vars

\* a download through the handle of a field never uploaded raised, in a
\* bucket that holds an attachment of another field
C12_Witness ==
    /\ last.op = "download" /\ last.err = "ValueError"
    /\ handle.live /\ handle.attr \notin DOMAIN recs[handle.slot].data
    /\ ~Handle_exists(handle)
    /\ FileVersions(bucket) # {}

\* C13: after nuke() no object is visible in the bucket: Table.get raises
\* KeyError for every key and list_keys() yields nothing.
C13_NukeHidesAll ==
    last.op = "nuke"
        => (/\ VisibleNames(bucket) = {}
            /\ \A key \in ScanKeys :
                  read_record_data_error(bucket, record_data_path(key)) = "KeyError"
            /\ list_table_keys(bucket, table_prefix) = {})

\* the number of '/' in a path
RECURSIVE Slashes(_)
Slashes(p) ==
    IF p = <<>> THEN 0 ELSE (IF Head(p) = SLASH THEN 1 ELSE 0) + Slashes(Tail(p))

\* C14: for every key, _record_prefix is table_prefix + '/' + n and
\* _record_data_path is that + '/record-data.json', where n =
\* normalize_key(key) has no '/' and no '\\': the key adds one path segment.
C14_KeyOneSegment ==
    last.op = "record_path"
        => LET n == normalize_key(last.key)
               prefix == last.val.items[1].s
               path == last.val.items[2].s
           IN  /\ \A i \in 1..Len(n) : n[i] \notin {SLASH, BACKSLASH}
               /\ prefix = table_prefix \o <<SLASH>> \o n
               /\ path = table_prefix \o <<SLASH>> \o n \o <<SLASH, RECORD_DATA>>
               /\ Slashes(prefix) = Slashes(table_prefix) + 1
               /\ Slashes(path) = Slashes(table_prefix) + 2

\* the paths of a key with a leading separator and a '/' or '\\' inside
C14_Witness ==
    /\ last.op = "record_path"
    /\ last.key = <<SLASH, "a", BACKSLASH, "a">>
    /\ normalize_key(last.key) = <<"a", "_", "_", "a">>
    /\ last.val.items[2].s = <<"t", SLASH, "a", "_", "_", "a", SLASH, RECORD_DATA>>

\* an argument of Table.create that __setattr__ takes without an exception
InitAccepted(pair) ==
    \/ pair.s[1] \notin FieldNames
    \/ pair.s[1] \notin FileFieldNames /\ pair.items[1].t \in SetItemClasses

\* C15: rec.<File field> = value raises AttributeError and leaves the record
\* as it was; Table.create with a File field among its arguments (those
\* before it accepted) raises AttributeError and returns no record.
C15_FileFieldReadOnly ==
    [][/\ (Called("setattr") /\ last'.attr \in FileFieldNames)
            => (last'.err = "AttributeError" /\ recs' = recs /\ bucket' = bucket)
       /\ (/\ Called("create")
           /\ \E i \in 1..Len(last'.val.items) :
                 /\ last'.val.items[i].s[1] \in FileFieldNames
                 /\ \A j \in 1..(i - 1) : InitAccepted(last'.val.items[j]))
            => (last'.err = "AttributeError" /\ recs' = recs /\ bucket' = bucket)]_vars

\* the assignment to the File field of a dirty record with a Native value raised
C15_Witness ==
    /\ last.op = "setattr" /\ last.attr = "photo" /\ last.err = "AttributeError"
    /\ recs[last.slot].changed
    /\ "name" \in DOMAIN recs[last.slot].data
    /\ "photo" \notin DOMAIN recs[last.slot].data

\* C16: a fetch of Table.all() raises KeyError exactly when the document of
\* the listed key is not visible at the fetch, whatever the listing saw, and
\* that ends the iteration; a record it yields holds the document stored at
\* the moment of the fetch.
C16_AllNotSnapshot ==
    [][Called("all_next") =>
        LET key == last'.key
            s == last'.slot
            name == ApplyDbPrefix(DbPrefix, record_data_path(key))
        IN  /\ key = Head(iter.pending)
            /\ last'.err = (IF DocVisible(bucket, key) THEN "none" ELSE "KeyError")
            /\ last'.err = "KeyError" => (~iter'.live /\ recs' = recs)
            /\ last'.err = "none"
                  => (/\ recs'[s].data = json_loads(Newest(bucket, name).doc)
                      /\ recs'[s].key = key
                      /\ ~recs'[s].changed)
            /\ bucket' = bucket]_vars

\* the fetch of a key raised KeyError right after another caller's delete of
\* that key, which the listing had produced
C16_Witness ==
    /\ last.op = "all_next" /\ last.err = "KeyError" /\ last.slot = 2
    /\ last.prev = "delete" /\ last.prevok
    /\ ~iter.live

\* C17: the stored document changes only when the store applies the write
\* of a save(), and is then the whole raw map of the record that save() was
\* called on, whatever was stored before and whichever request was sent
\* first; Table.get makes the whole raw map of its record from the document.
C17_LastWriteWins ==
    [][LET s == last'.slot
           name == ApplyDbPrefix(DbPrefix, record_data_path(KeyA))
       IN  /\ (Called("save") /\ last'.wrote)
                => (/\ flight[s].sent
                    /\ DocVisible(bucket', KeyA)
                    /\ Newest(bucket', name).doc = json_dumps(recs[s].data)
                    /\ DOMAIN json_loads(Newest(bucket', name).doc) = DOMAIN recs[s].data)
           /\ ~(Called("save") /\ last'.wrote) => bucket' = bucket
           /\ (Called("get") /\ last'.err = "none")
                => recs'[s].data = json_loads(Newest(bucket, name).doc)]_vars

\* both instances have saved, their maps differ in their attributes, and
\* the store holds the map of the write it applied last
C17_Witness ==
    /\ last.op = "save" /\ last.wrote
    /\ last.prev = "save" /\ last.prevok /\ last.prevslot # last.slot
    /\ ~recs[1].changed /\ ~recs[2].changed
    /\ DOMAIN recs[1].data # DOMAIN recs[2].data
    /\ Newest(bucket, ApplyDbPrefix(DbPrefix, record_data_path(KeyA))).doc
          = json_dumps(recs[last.slot].data)

\* C18: the listing of Table.all() holds exactly the keys of the visible
\* documents, each once, and while the bucket is as the listing saw it every
\* fetch returns the record of a stored document with that document's map.
C18_AllYieldsEach ==
    [][/\ Called("all_list")
            => (/\ last'.err = "none"
                /\ last'.keys = {normalize_key(k) : k \in {x \in ScanKeys : DocVisible(bucket, x)}}
                /\ Len(iter'.pending) = Cardinality(last'.keys))
       /\ (Called("all_next") /\ bucket = iter.at)
            => (/\ last'.err = "none"
                /\ \E k \in ScanKeys : DocVisible(bucket, k) /\ last'.key = normalize_key(k)
                /\ recs'[last'.slot].data
                      = json_loads(Newest(bucket, ApplyDbPrefix(DbPrefix, record_data_path(last'.key))).doc))]_vars

\* C19: a download through a handle that holds the record's metadata of an
\* uploaded file fetches, for a field that pins the version, the bytes of
\* the recorded upload, and for a field that does not, the newest object
\* visible under the name the upload wrote to (NotFound if none is visible).
C19_DownloadAddressing ==
    [][(/\ Called("download")
        /\ handle.value # NoneV
        /\ handle.value = Model_getitem(recs[handle.slot], handle.attr))
        => LET fileName == DictGet(handle.value, "fileName").s
               size == DictGet(handle.value, "size").n
           IN  IF FileOptions(handle.attr).use_version
               THEN /\ last'.err = "none"
                    /\ last'.val = PV("bytes", fileName, size, <<>>)
               ELSE IF fileName \in VisibleNames(bucket)
               THEN /\ last'.err = "none"
                    /\ last'.val = Fetched(Newest(bucket, fileName))
               ELSE last'.err = "NotFound"]_vars

\* C20: handle.upload of a file whose content type is not in the field's
\* accept_content_types raises ValueError, stores nothing and leaves the
\* record as it was.
C20_RejectedUploadNoEffect ==
    [][(/\ Called("handle_upload")
        /\ ~FileOptions(last'.attr).accept_any
        /\ last'.val.items[1].s[1] \notin FileOptions(last'.attr).accept_content_types)
        => (/\ last'.err = "ValueError"
            /\ ~last'.wrote
            /\ bucket' = bucket
            /\ recs' = recs)]_vars

\* the upload of a JSON file was refused by the field that accepts
\* text/plain only, on a record that holds an earlier upload of that field
C20_Witness ==
    /\ last.op = "handle_upload" /\ last.err = "ValueError" /\ last.attr = "doc"
    /\ last.val.items[1] = StrV(<<"application/json">>)
    /\ "doc" \in DOMAIN recs[last.slot].data
    /\ FileVersions(bucket) # {}

GetResult(b, key) ==
    IF read_record_data_error(b, record_data_path(key)) = "none"
    THEN [err |-> "none", data |-> read_record_data(b, record_data_path(key))]
    ELSE [err |-> "KeyError", data |-> EmptyMap]

\* C22: Table.delete(k) leaves every record of another key k2 as it was:
\* Table.get(k2) gives what it gave before and the attachments uploaded for
\* k2 are visible exactly as before, also for the empty key and for keys one
\* of which is a path prefix of the other.
C22_DeleteConfined ==
    [][Called("delete") =>
        \A k2 \in ConfineKeys \ {last'.key} :
            /\ GetResult(bucket', k2) = GetResult(bucket, k2)
            /\ AttachmentsOf(bucket', k2) = AttachmentsOf(bucket, k2)]_vars

\* C23: two different keys have different document paths, and a save() of
\* the record of one key that stores its document leaves what Table.get of
\* every other key gives as it was.
C23_DistinctKeysApart ==
    [][(Called("save") /\ last'.wrote) =>
        \A k2 \in StoreKeys \ {last'.key} :
            /\ record_data_path(k2) # record_data_path(last'.key)
            /\ GetResult(bucket', k2) = GetResult(bucket, k2)]_vars

\* two prefixes, both set, with neither folder inside the other
Apart(p1, p2) ==
    /\ p1 # <<>> /\ p2 # <<>>
    /\ ~StartsWith(p1 \o <<SLASH>>, p2 \o <<SLASH>>)
    /\ ~StartsWith(p2 \o <<SLASH>>, p1 \o <<SLASH>>)

\* what the Database constructed with prefix reads and lists in bucket b
DbView(prefix, b) ==
    [reads |-> [key \in PrefixKeys |->
                  IF B2Database_read_record_data_error(prefix, b, record_data_path(key)) = "none"
                  THEN [err |-> "none",
                        data |-> B2Database_read_record_data(prefix, b, record_data_path(key))]
                  ELSE [err |-> "KeyError", data |-> EmptyMap]],
     listed |-> B2Database_list_table_keys(prefix, b, table_prefix),
     err |-> B2Database_list_table_keys_error(prefix, b, table_prefix)]

\* a call on the Database with prefix P touches only objects whose path
\* starts with P + '/' (with no prefix: the path the table built), and
\* leaves what every Database with a prefix that differs from P sees
PrefixConfined(differs(_, _)) ==
    LET prefix == last'.val.s
        names == last'.keys
        one == Called("write_record_data") \/ Called("read_record_data")
    IN  /\ prefix # <<>> => \A n \in names : StartsWith(n, prefix \o <<SLASH>>)
        /\ (prefix = <<>> /\ one) => names \subseteq {record_data_path(last'.key)}
        /\ (prefix = <<>> /\ ~one) => \A n \in names : StartsWith(n, table_prefix \o <<SLASH>>)
        /\ (one /\ last'.err = "none")
              => names = {ApplyDbPrefix(prefix, record_data_path(last'.key))}
        /\ \A n \in DOMAIN bucket' :
              (n \notin DOMAIN bucket \/ bucket'[n] # bucket[n]) => n \in names
        /\ \A p2 \in DbPrefixes :
              differs(prefix, p2) => DbView(p2, bucket') = DbView(p2, bucket)

\* C24 as stated: every object a Database with prefix P writes, reads, lists
\* or hides has a path starting with P + '/' (none: the path unchanged), and
\* its calls never change what a Database with a different prefix reads or
\* lists.
C24_PrefixConfined == [][PrefixConfined(LAMBDA p1, p2 : p1 # p2)]_vars

\* C24 as amended: the calls never change what a Database reads or lists
\* whose prefix is set and lies apart from P, neither folder inside the other.
C24_PrefixConfinedApart == [][PrefixConfined(Apart)]_vars

\* the Database 'p' deleted its record 't', which hid the record 'a' of the
\* Database 'p/t', while the Database 'q' still reads its own record 'a'
C24_Witness ==
    /\ last.op = "delete_record_files" /\ last.val = StrV(<<"p">>)
    /\ last.key = KeyT /\ last.err = "none"
    /\ B2Database_read_record_data_error(<<"q">>, bucket, record_data_path(KeyA)) = "none"
    /\ B2Database_read_record_data_error(<<"p", SLASH, "t">>, bucket, record_data_path(KeyA))
          = "KeyError"

====
